---- MODULE Spec2Model ----
(***************************************************************************)
(* Deployment lifecycle of yok: the API server (src/api/index.ts), its     *)
(* Kafka log consumer, the build worker's log lines and the reverse proxy  *)
(* (main.go).                                                              *)
(*                                                                         *)
(* Every `await` of a handler is a point where other handlers may run, so  *)
(* a handler is a chain of actions, one per awaited call, and the position *)
(* of each request is part of the state.                                   *)
(***************************************************************************)
EXTENDS Integers, Sequences, FiniteSets, TLC

\* ------------------------------------------------------------------ bounds
\* Project rows, deploy requests and cancel requests a behaviour may hold.
MaxProjects == 2
MaxDeployReqs == 2
MaxCancelReqs == 1
\* Deployment rows in a behaviour that has the log consumer in it.
MaxDeployments == 1
\* Messages in a batch, batches delivered in a behaviour, segments in a line.
MaxBatch == 2
MaxBatches == 1
MaxLineLen == 2
\* Segments in the path of a request to the reverse proxy.
MaxPathLen == 2

\* --------------------------------------------------------------- constants
StatusPending == "PENDING"
StatusQueued == "QUEUED"
StatusInProgress == "IN_PROGRESS"
StatusCompleted == "COMPLETED"
StatusFailed == "FAILED"

DeploymentStatus ==
    {StatusPending, StatusQueued, StatusInProgress, StatusCompleted, StatusFailed}

Terminal == {StatusCompleted, StatusFailed}

NonTerminal == DeploymentStatus \ Terminal

\* A nullable column that is null, and a handler that has answered nothing.
Null == 0

\* Text of the markers updateDeploymentStatus looks for.
StartMarker == "Starting"
Sentinel == "Build output uploaded to S3 successfully"
ErrorMarker == "error"
FailedMarker == "failed"

\* A log line is a sequence of text segments.  Each segment is one of the
\* markers in some letter case, or text that holds no marker.
Segments ==
    {StartMarker, "starting", Sentinel, "build output uploaded to s3 successfully",
     "error", "Error", "ERROR", "failed", "Failed", "FAILED", "ok"}

SeqsUpTo(S, n) == UNION {[1..k -> S] : k \in 1..n}

Lines == SeqsUpTo(Segments, MaxLineLen)

\* String.prototype.toLowerCase on a segment and on a line.
LowerSegment(s) ==
    CASE s = StartMarker -> "starting"
      [] s = Sentinel -> "build output uploaded to s3 successfully"
      [] s \in {"Error", "ERROR"} -> "error"
      [] s \in {"Failed", "FAILED"} -> "failed"
      [] OTHER -> s

toLowerCase(log) == [i \in DOMAIN log |-> LowerSegment(log[i])]

\* String.prototype.includes for a marker.
includes(log, marker) == \E i \in DOMAIN log : log[i] = marker

VARIABLES
    projects,      \* Project rows, in order of creation: index = id
    deployments,   \* Deployment rows, in order of creation: index = id
    jobs,          \* deployment ids accepted by the task runner (ECS)
    deployReq,     \* POST /deploy requests in flight or finished
    cancelReq,     \* POST /deployment/:id/cancel requests
    batch,         \* messages of the batch handed to eachBatch
    pos,           \* index in batch of the message being processed
    ipc,           \* position of eachBatch
    logStore,      \* rows of log_events, in insertion order
    resolved,      \* index in batch of the last message given to resolveOffset
    committed,     \* resolved offset at the last commit
    delivered,     \* number of deliveries so far
    snapshot,      \* statuses when the batch was delivered again
    classified,    \* <<line, status written or NONE>> of the calls of
                   \* updateDeploymentStatus that returned for this batch
    proxyReq,      \* the request the reverse proxy is serving
    follow         \* the CLI's FollowDeploymentStatus loop

vars == <<projects, deployments, jobs, deployReq, cancelReq,
          batch, pos, ipc, logStore, resolved, committed, delivered, snapshot,
          classified, proxyReq, follow>>

apiVars == <<projects, deployments, jobs, deployReq, cancelReq>>

ingestVars ==
    <<batch, pos, ipc, logStore, resolved, committed, delivered, snapshot, classified>>

proxyVars == <<proxyReq>>

\* The processes that only read the store.
readerVars == <<proxyReq, follow>>

ProjectIds == 1..MaxProjects
DeployReqIds == 1..MaxDeployReqs
CancelReqIds == 1..MaxCancelReqs
\* Every deployment is created by one deploy request.
DeploymentIds == 1..MaxDeployReqs
\* Deployment ids found in messages: those of rows, and one of no row.
StreamIds == 1..(MaxDeployments + 1)

Slugs == {"brave-solid-otter", "calm-red-fox"}

\* ---------------------------------------------------------------- the store
\* DeploymentUpdate as an updateMany without its where clause.
DeploymentUpdateMany(rows, id, status) ==
    [d \in DOMAIN rows |->
        [rows[d] EXCEPT !.status = status, !.updatedAt = @ + 1]]

\* prisma.deployment.update: overwrites status; @updatedAt stamps the row.
\* updatedAt is modelled as the number of updates applied to the row.
DeploymentUpdate(rows, id, status) ==
    [rows EXCEPT ![id] = [@ EXCEPT !.status = status, !.updatedAt = @ + 1]]

Exists(rows, id) == id \in DOMAIN rows

\* -------------------------------------------------------------------- Init
IdleDeploy == [pc |-> "idle", projectId |-> Null, dep |-> Null, res |-> Null]

IdleCancel == [pc |-> "idle", id |-> Null, seen |-> "", res |-> Null]

IdleProxy ==
    [pc |-> "idle", label |-> <<>>, path |-> <<>>, api |-> Null, body |-> "",
     deploymentId |-> "", forward |-> <<>>, res |-> Null]

IdleFollow == [pc |-> "idle", id |-> Null, seen |-> "", report |-> ""]

Statuses(rows) == [d \in DOMAIN rows |-> rows[d].status]

Init ==
    /\ projects = <<>>
    /\ deployments = <<>>
    /\ jobs = {}
    /\ deployReq = [r \in DeployReqIds |-> IdleDeploy]
    /\ cancelReq = [c \in CancelReqIds |-> IdleCancel]
    /\ batch = <<>>
    /\ pos = 0
    /\ ipc = "idle"
    /\ logStore = <<>>
    /\ resolved = 0
    /\ committed = 0
    /\ delivered = 0
    /\ snapshot = <<>>
    /\ classified = {}
    /\ proxyReq = IdleProxy
    /\ follow = IdleFollow

\* ----------------------------------------------------------- POST /project
\* CreateProject on a table without the unique index on slug.
CreateProjectNoIndex ==
    /\ Len(projects) < MaxProjects
    /\ \E slug \in Slugs :
          projects' = Append(projects, [slug |-> slug, latestDeploymentId |-> Null])
    /\ UNCHANGED <<deployments, jobs, deployReq, cancelReq>>
    /\ UNCHANGED ingestVars
    /\ UNCHANGED readerVars

\* generateSlug() draws a slug; the unique index on slug rejects a duplicate
\* and the handler answers 500 without a row.
CreateProject ==
    /\ Len(projects) < MaxProjects
    /\ \E slug \in Slugs :
          /\ \A p \in DOMAIN projects : projects[p].slug # slug
          /\ projects' = Append(projects, [slug |-> slug, latestDeploymentId |-> Null])
    /\ UNCHANGED <<deployments, jobs, deployReq, cancelReq>>
    /\ UNCHANGED ingestVars
    /\ UNCHANGED readerVars

\* ------------------------------------------------------------ POST /deploy
\* Request slots are taken in order.
DeployFree(r) ==
    /\ deployReq[r].pc = "idle"
    /\ \A q \in DeployReqIds : q < r => deployReq[q].pc # "idle"

\* Lines 103-126: 400 for a body without a uuid; findUnique on the project;
\* 404 when there is none.  A rejected promise in this handler is caught
\* only around ecsClient.send: elsewhere the request is never answered.
DeployFind(r) ==
    /\ DeployFree(r)
    /\ \/ deployReq' = [deployReq EXCEPT ![r] = [@ EXCEPT !.pc = "done", !.res = 400]]
       \/ \E p \in ProjectIds, ok \in BOOLEAN :
             deployReq' = [deployReq EXCEPT ![r] =
                 IF ~ok
                    THEN [@ EXCEPT !.pc = "dead", !.projectId = p]
                 ELSE IF Exists(projects, p)
                    THEN [@ EXCEPT !.pc = "create", !.projectId = p]
                    ELSE [@ EXCEPT !.pc = "done", !.projectId = p, !.res = 404]]
    /\ UNCHANGED <<projects, deployments, jobs, cancelReq>>
    /\ UNCHANGED ingestVars
    /\ UNCHANGED readerVars

\* DeployCreate without the status field: the row takes the column default.
DeployCreateDefault(r) ==
    /\ deployReq[r].pc = "create"
    /\ deployments' = Append(deployments,
          [projectId |-> deployReq[r].projectId,
           status |-> StatusPending, updatedAt |-> 0])
    /\ deployReq' = [deployReq EXCEPT ![r] =
          [@ EXCEPT !.pc = "link", !.dep = Len(deployments) + 1]]
    /\ UNCHANGED <<projects, jobs, cancelReq>>
    /\ UNCHANGED ingestVars
    /\ UNCHANGED readerVars

\* Lines 129-138: prisma.deployment.create with status QUEUED.
DeployCreate(r) ==
    /\ deployReq[r].pc = "create"
    /\ \E ok \in BOOLEAN :
          IF ok
             THEN /\ deployments' = Append(deployments,
                        [projectId |-> deployReq[r].projectId,
                         status |-> StatusQueued, updatedAt |-> 0])
                  /\ deployReq' = [deployReq EXCEPT ![r] =
                        [@ EXCEPT !.pc = "link", !.dep = Len(deployments) + 1]]
             ELSE /\ deployReq' = [deployReq EXCEPT ![r] = [@ EXCEPT !.pc = "dead"]]
                  /\ UNCHANGED deployments
    /\ UNCHANGED <<projects, jobs, cancelReq>>
    /\ UNCHANGED ingestVars
    /\ UNCHANGED readerVars

\* DeployLink with where: {id: deployment.id} in place of the project's id.
DeployLinkByDeployment(r) ==
    /\ deployReq[r].pc = "link"
    /\ \E ok \in BOOLEAN :
          IF ok
             THEN /\ projects' = [p \in DOMAIN projects |->
                        IF p = deployReq[r].dep
                           THEN [projects[p] EXCEPT
                                    !.latestDeploymentId = deployReq[r].dep]
                           ELSE projects[p]]
                  /\ deployReq' = [deployReq EXCEPT ![r] = [@ EXCEPT !.pc = "send"]]
             ELSE /\ deployReq' = [deployReq EXCEPT ![r] = [@ EXCEPT !.pc = "dead"]]
                  /\ UNCHANGED projects
    /\ UNCHANGED <<deployments, jobs, cancelReq>>
    /\ UNCHANGED ingestVars
    /\ UNCHANGED readerVars

\* Lines 140-143: prisma.project.update of latestDeploymentId.
DeployLink(r) ==
    /\ deployReq[r].pc = "link"
    /\ \E ok \in BOOLEAN :
          IF ok
             THEN /\ projects' = [projects EXCEPT ![deployReq[r].projectId] =
                        [@ EXCEPT !.latestDeploymentId = deployReq[r].dep]]
                  /\ deployReq' = [deployReq EXCEPT ![r] = [@ EXCEPT !.pc = "send"]]
             ELSE /\ deployReq' = [deployReq EXCEPT ![r] = [@ EXCEPT !.pc = "dead"]]
                  /\ UNCHANGED projects
    /\ UNCHANGED <<deployments, jobs, cancelReq>>
    /\ UNCHANGED ingestVars
    /\ UNCHANGED readerVars

\* Lines 187-201: ecsClient.send.  On success 202 is answered; on failure
\* 500 is answered and the handler goes on to mark the deployment.
DeploySend(r) ==
    /\ deployReq[r].pc = "send"
    /\ \E ok \in BOOLEAN :
          IF ok
             THEN /\ jobs' = jobs \cup {deployReq[r].dep}
                  /\ deployReq' = [deployReq EXCEPT ![r] =
                        [@ EXCEPT !.pc = "done", !.res = 202]]
             ELSE /\ deployReq' = [deployReq EXCEPT ![r] =
                        [@ EXCEPT !.pc = "fail", !.res = 500]]
                  /\ UNCHANGED jobs
    /\ UNCHANGED <<projects, deployments, cancelReq>>
    /\ UNCHANGED ingestVars
    /\ UNCHANGED readerVars

\* Lines 202-209: prisma.deployment.update to FAILED, after the answer.
DeployMarkFailed(r) ==
    /\ deployReq[r].pc = "fail"
    /\ \E ok \in BOOLEAN :
          IF ok
             THEN /\ deployments' =
                        DeploymentUpdate(deployments, deployReq[r].dep, StatusFailed)
                  /\ deployReq' = [deployReq EXCEPT ![r] = [@ EXCEPT !.pc = "done"]]
             ELSE /\ deployReq' = [deployReq EXCEPT ![r] = [@ EXCEPT !.pc = "dead"]]
                  /\ UNCHANGED deployments
    /\ UNCHANGED <<projects, jobs, cancelReq>>
    /\ UNCHANGED ingestVars
    /\ UNCHANGED readerVars

\* ------------------------------------------- POST /deployment/:id/cancel
CancelFree(c) ==
    /\ cancelReq[c].pc = "idle"
    /\ \A q \in CancelReqIds : q < c => cancelReq[q].pc # "idle"

\* CancelAllowed with the test for COMPLETED left out.
CancelAllowedUnlessFailed(status) == status # StatusFailed

\* Line 611: the statuses a deployment may be cancelled in.
CancelAllowed(status) ==
    ~(status # StatusPending /\ status # StatusQueued /\ status # StatusInProgress)

\* Lines 581-617: 400 for an id that is no uuid; findUnique, 404 when there
\* is no row, 400 unless the status read is PENDING, QUEUED or IN_PROGRESS;
\* a rejected findUnique is caught and answered with 500.
CancelFind(c) ==
    /\ CancelFree(c)
    /\ \/ cancelReq' = [cancelReq EXCEPT ![c] = [@ EXCEPT !.pc = "done", !.res = 400]]
       \/ \E id \in DeploymentIds, ok \in BOOLEAN :
          cancelReq' = [cancelReq EXCEPT ![c] =
              IF ~ok
                 THEN [@ EXCEPT !.pc = "done", !.id = id, !.res = 500]
              ELSE IF ~Exists(deployments, id)
                 THEN [@ EXCEPT !.pc = "done", !.id = id, !.res = 404]
                 ELSE IF ~CancelAllowed(deployments[id].status)
                 THEN [@ EXCEPT !.pc = "done", !.id = id,
                                !.seen = deployments[id].status, !.res = 400]
                 ELSE [@ EXCEPT !.pc = "write", !.id = id,
                                !.seen = deployments[id].status]]
    /\ UNCHANGED <<projects, deployments, jobs, deployReq>>
    /\ UNCHANGED ingestVars
    /\ UNCHANGED readerVars

\* Lines 620-639: prisma.deployment.update to FAILED, then 200; a rejected
\* update is caught and answered with 500.
CancelWrite(c) ==
    /\ cancelReq[c].pc = "write"
    /\ \E ok \in BOOLEAN :
          IF ok
             THEN /\ deployments' =
                        DeploymentUpdate(deployments, cancelReq[c].id, StatusFailed)
                  /\ cancelReq' = [cancelReq EXCEPT ![c] =
                        [@ EXCEPT !.pc = "done", !.res = 200]]
             ELSE /\ cancelReq' = [cancelReq EXCEPT ![c] =
                        [@ EXCEPT !.pc = "done", !.res = 500]]
                  /\ UNCHANGED deployments
    /\ UNCHANGED <<projects, jobs, deployReq>>
    /\ UNCHANGED ingestVars
    /\ UNCHANGED readerVars

\* ------------------------------------------------- updateDeploymentStatus
NoSignal == "NONE"

\* Signal with the test for "error" and "failed" made first.
SignalErrorFirst(log) ==
    IF includes(toLowerCase(log), ErrorMarker)
       \/ includes(toLowerCase(log), FailedMarker) THEN StatusFailed
    ELSE IF includes(log, StartMarker) THEN StatusInProgress
    ELSE IF includes(log, Sentinel) THEN StatusCompleted
    ELSE NoSignal

\* The branch of updateDeploymentStatus a log line takes (lines 251-270).
Signal(log) ==
    IF includes(log, StartMarker) THEN StatusInProgress
    ELSE IF includes(log, Sentinel) THEN StatusCompleted
    ELSE IF includes(toLowerCase(log), ErrorMarker)
            \/ includes(toLowerCase(log), FailedMarker) THEN StatusFailed
    ELSE NoSignal

\* prisma.deployment.update rejects when no row has the id.
UpdateThrows(rows, deploymentId, log) ==
    Signal(log) # NoSignal /\ ~Exists(rows, deploymentId)

\* updateDeploymentStatus that writes COMPLETED and FAILED only to a row
\* that is IN_PROGRESS.
updateDeploymentStatusFromBuild(rows, deploymentId, log) ==
    IF Signal(log) = NoSignal
          \/ (Signal(log) \in Terminal /\ rows[deploymentId].status # StatusInProgress)
       THEN rows
       ELSE DeploymentUpdate(rows, deploymentId, Signal(log))

\* updateDeploymentStatus that follows QUEUED, IN_PROGRESS, terminal in order.
updateDeploymentStatusInOrder(rows, deploymentId, log) ==
    IF Signal(log) = NoSignal
          \/ (Signal(log) \in Terminal /\ rows[deploymentId].status # StatusInProgress)
          \/ (Signal(log) = StatusInProgress /\ rows[deploymentId].status # StatusQueued)
       THEN rows
       ELSE DeploymentUpdate(rows, deploymentId, Signal(log))

\* updateDeploymentStatus that makes no call when the row has the status.
updateDeploymentStatusSkipSame(rows, deploymentId, log) ==
    IF Signal(log) = NoSignal \/ rows[deploymentId].status = Signal(log)
       THEN rows
       ELSE DeploymentUpdate(rows, deploymentId, Signal(log))

\* The rows after updateDeploymentStatus(deploymentId, log) has returned.
updateDeploymentStatus(rows, deploymentId, log) ==
    IF Signal(log) = NoSignal
       THEN rows
       ELSE DeploymentUpdate(rows, deploymentId, Signal(log))

\* ------------------------------------------------------------ consumeLogs
\* Lines the build worker and its build tools write (script.js pubLog).
StreamLines == {<<StartMarker>>, <<Sentinel>>, <<"Error", "ok">>, <<"ok">>}

\* A message without a value (line 300).
NullMessage == [kind |-> "null", id |-> Null, log |-> <<>>]

\* A payload JSON.parse rejects (line 304).
BadMessage == [kind |-> "bad", id |-> Null, log |-> <<>>]

LogMessage(id, log) == [kind |-> "ok", id |-> id, log |-> log]

Messages ==
    {LogMessage(id, log) : id \in StreamIds, log \in StreamLines}
        \cup {NullMessage, BadMessage}

Batches == SeqsUpTo(Messages, MaxBatch)

\* The for loop moves to the next message, or leaves the loop (line 299).
NextMessage ==
    IF pos < Len(batch)
       THEN pos' = pos + 1 /\ ipc' = "update"
       ELSE pos' = pos /\ ipc' = "commit"

\* consumer.run hands a batch to eachBatch (line 295).
Deliver ==
    /\ ipc = "idle"
    /\ delivered < MaxBatches
    /\ \E b \in Batches : batch' = b
    /\ pos' = 1
    /\ ipc' = "update"
    /\ delivered' = delivered + 1
    /\ UNCHANGED <<logStore, resolved, committed, snapshot, classified>>
    /\ UNCHANGED apiVars
    /\ UNCHANGED readerVars

\* What a call of updateDeploymentStatus did to the row: the status it
\* wrote, or NONE when it wrote nothing (every write stamps updatedAt).
Written(rows, after, deploymentId) ==
    IF ~Exists(rows, deploymentId) \/ after[deploymentId] = rows[deploymentId]
       THEN NoSignal
       ELSE after[deploymentId].status

\* UpdateStep in a loop without the try and catch of lines 303-315: what is
\* thrown ends eachBatch.
UpdateStepUncaught(outcomes) ==
    /\ ipc = "update"
    /\ LET m == batch[pos] IN
          IF m.kind = "null"
             THEN /\ NextMessage
                  /\ UNCHANGED <<deployments, classified>>
          ELSE IF m.kind # "ok" \/ UpdateThrows(deployments, m.id, m.log)
             THEN /\ pos' = pos
                  /\ ipc' = "heartbeat"
                  /\ UNCHANGED <<deployments, classified>>
             ELSE \E ok \in outcomes :
                     IF ok \/ Signal(m.log) = NoSignal
                        THEN /\ deployments' =
                                   updateDeploymentStatus(deployments, m.id, m.log)
                             /\ classified' = classified \cup
                                   {<<m.log, Written(deployments, deployments', m.id)>>}
                             /\ pos' = pos
                             /\ ipc' = "archive"
                        ELSE /\ pos' = pos
                             /\ ipc' = "heartbeat"
                             /\ UNCHANGED <<deployments, classified>>
    /\ UNCHANGED <<batch, logStore, resolved, committed, delivered, snapshot>>
    /\ UNCHANGED <<projects, jobs, deployReq, cancelReq>>
    /\ UNCHANGED readerVars

\* Lines 300-308: skip an empty value; JSON.parse; updateDeploymentStatus.
\* Anything thrown is caught at line 313 and the loop goes on.  outcomes
\* are the answers the store may give to the update: TRUE for applied,
\* FALSE for rejected.
UpdateStep(outcomes) ==
    /\ ipc = "update"
    /\ LET m == batch[pos] IN
          IF m.kind # "ok" \/ UpdateThrows(deployments, m.id, m.log)
             THEN /\ NextMessage
                  /\ UNCHANGED <<deployments, classified>>
             ELSE \E ok \in outcomes :
                     IF ok \/ Signal(m.log) = NoSignal
                        THEN /\ deployments' =
                                   updateDeploymentStatus(deployments, m.id, m.log)
                             /\ classified' = classified \cup
                                   {<<m.log, Written(deployments, deployments', m.id)>>}
                             /\ pos' = pos
                             /\ ipc' = "archive"
                        ELSE /\ NextMessage
                             /\ UNCHANGED <<deployments, classified>>
    /\ UNCHANGED <<batch, logStore, resolved, committed, delivered, snapshot>>
    /\ UNCHANGED <<projects, jobs, deployReq, cancelReq>>
    /\ UNCHANGED readerVars

\* storeLogInClickHouse putting the row in front of the older ones.
storeLogInClickHouseFirst(rows, deploymentId, log) ==
    <<[deployment_id |-> deploymentId, log |-> log]>> \o rows

\* Lines 274-284: one row of log_events.
storeLogInClickHouse(rows, deploymentId, log) ==
    Append(rows, [deployment_id |-> deploymentId, log |-> log])

\* ArchiveStep with a commit of the offset right after resolveOffset.
ArchiveStepCommitEach(outcomes) ==
    /\ ipc = "archive"
    /\ \E ok \in outcomes :
          IF ok
             THEN /\ logStore' =
                        storeLogInClickHouse(logStore, batch[pos].id, batch[pos].log)
                  /\ resolved' = pos
                  /\ committed' = pos
             ELSE UNCHANGED <<logStore, resolved, committed>>
    /\ NextMessage
    /\ UNCHANGED <<batch, delivered, snapshot, classified>>
    /\ UNCHANGED apiVars
    /\ UNCHANGED readerVars

\* Lines 309-312: storeLogInClickHouse, then resolveOffset.
ArchiveStep(outcomes) ==
    /\ ipc = "archive"
    /\ \E ok \in outcomes :
          IF ok
             THEN /\ logStore' =
                        storeLogInClickHouse(logStore, batch[pos].id, batch[pos].log)
                  /\ resolved' = pos
             ELSE UNCHANGED <<logStore, resolved>>
    /\ NextMessage
    /\ UNCHANGED <<batch, committed, delivered, snapshot, classified>>
    /\ UNCHANGED apiVars
    /\ UNCHANGED readerVars

IngestUpdate == UpdateStep(BOOLEAN)

IngestArchive == ArchiveStep(BOOLEAN)

\* Line 319: commitOffsetsIfNecessary.
IngestCommit ==
    /\ ipc = "commit"
    /\ committed' = resolved
    /\ ipc' = "heartbeat"
    /\ UNCHANGED <<batch, pos, logStore, resolved, delivered, snapshot, classified>>
    /\ UNCHANGED apiVars
    /\ UNCHANGED readerVars

\* Line 320: heartbeat; eachBatch returns.
IngestHeartbeat ==
    /\ ipc = "heartbeat"
    /\ ipc' = "idle"
    /\ batch' = <<>>
    /\ pos' = 0
    /\ resolved' = 0
    /\ classified' = {}
    /\ UNCHANGED <<logStore, committed, delivered, snapshot>>
    /\ UNCHANGED apiVars
    /\ UNCHANGED readerVars

\* ------------------------------------------ reverse proxy (main.go) and
\* ------------------------------------------ GET /resolve/:slug
\* The first label of a host name is a sequence of words joined by hyphens.
\* LowerWords are words of lowercase letters only.
LowerWords == {"brave", "solid", "otter", "calm", "red", "fox"}

HostLabels ==
    {<<"brave", "solid", "otter">>, <<"calm", "red", "fox">>,
     <<"brave", "solid">>, <<"brave", "solid", "otter", "fox">>,
     <<"Brave", "solid", "otter">>, <<"d1">>, <<"d2", "red", "fox">>}

\* The text of a label.
RECURSIVE Join(_)
Join(words) ==
    IF Len(words) = 1 THEN words[1] ELSE words[1] \o "-" \o Join(Tail(words))

\* slugPattern with a test for two words or more.
slugPatternAtLeastTwo(label) ==
    /\ Len(label) >= 2
    /\ \A i \in DOMAIN label : label[i] \in LowerWords

\* main.go line 68: ^[a-z]+-[a-z]+-[a-z]+$
slugPattern(label) ==
    /\ Len(label) = 3
    /\ \A i \in DOMAIN label : label[i] \in LowerWords

\* The id column of a deployment as the text sent in JSON and used in URLs.
DeploymentIdText(d) == "d" \o ToString(d)

\* A request path split at "/" after its leading "/": "" is <<>>, "/" is
\* <<"">>, "/about" is <<"about">>, "/about/" is <<"about", "">>.
PathSegments == {"", "about", "team", "assets", "_next"}

\* The paths the handler is called with: http.HandleFunc registers it with
\* the default mux, which redirects a path with an empty segment inside, so
\* only the last segment can be empty.
Paths ==
    {<<>>} \cup {path \in SeqsUpTo(PathSegments, MaxPathLen) :
                    \A i \in 1..(Len(path) - 1) : path[i] # ""}

IndexPath == <<"index.html">>

\* main.go lines 136-144.
knownAssetDirs == {"assets", "images", "static", "media", "_next", "js", "css"}

\* pathMatch without the "/" after the first segment.
pathMatchFirstSegment(urlPath) == Len(urlPath) >= 1 /\ urlPath[1] # ""

\* pathRegex ^/([^/]+)/(.*)$ of line 130 matches.
pathMatch(urlPath) == Len(urlPath) >= 2 /\ urlPath[1] # ""

\* Rewrite that gives the index page for "/" only.
RewriteSlashOnly(path) ==
    IF path = <<"">> THEN IndexPath
    ELSE IF pathMatch(path) /\ path[1] \notin knownAssetDirs THEN Tail(path)
    ELSE path

\* main.go lines 123-149: r.URL.Path as the proxy forwards it.
Rewrite(path) ==
    IF path = <<>> \/ path = <<"">> THEN IndexPath
    ELSE IF pathMatch(path) /\ path[1] \notin knownAssetDirs THEN Tail(path)
    ELSE path

\* main.go lines 61-69: split the host, test the first label.
ProxyStart ==
    /\ proxyReq.pc = "idle"
    /\ \E label \in HostLabels, path \in Paths :
          proxyReq' =
             IF slugPattern(label)
                THEN [proxyReq EXCEPT !.pc = "lookup", !.label = label, !.path = path]
                ELSE [proxyReq EXCEPT !.pc = "rewrite", !.label = label, !.path = path,
                                      !.deploymentId = Join(label)]
    /\ UNCHANGED apiVars
    /\ UNCHANGED ingestVars
    /\ UNCHANGED follow

\* The project row findUnique({where: {slug}}) returns, or Null.
FindBySlug(rows, slug) ==
    IF \E p \in DOMAIN rows : rows[p].slug = slug
       THEN CHOOSE p \in DOMAIN rows : rows[p].slug = slug
       ELSE Null

\* index.ts lines 340-356: what GET /resolve/:slug answers when findUnique
\* returns.
ResolveAnswer(slug) ==
    LET p == FindBySlug(projects, slug) IN
    IF p = Null \/ projects[p].latestDeploymentId = Null
       THEN [api |-> 404, body |-> ""]
       ELSE [api |-> 200, body |-> DeploymentIdText(projects[p].latestDeploymentId)]

\* main.go line 73 and index.ts lines 326-364: client.Get; the API server
\* answers 200, 404, or 500 when findUnique rejects.  When client.Get fails
\* (main.go line 74) the proxy has no status code: api stays Null.
ResolveSlug ==
    /\ proxyReq.pc = "lookup"
    /\ \E outcome \in {"answered", "rejected", "unreachable"} :
          proxyReq' =
             CASE outcome = "answered" ->
                    [proxyReq EXCEPT !.pc = "answer",
                        !.api = ResolveAnswer(Join(proxyReq.label)).api,
                        !.body = ResolveAnswer(Join(proxyReq.label)).body]
               [] outcome = "rejected" ->
                    [proxyReq EXCEPT !.pc = "answer", !.api = 500]
               [] outcome = "unreachable" ->
                    [proxyReq EXCEPT !.pc = "answer"]
    /\ UNCHANGED apiVars
    /\ UNCHANGED ingestVars
    /\ UNCHANGED follow

\* main.go lines 74-110: 500 for a transport error and for every status but
\* 200; 404 for an answer without a deployment id.
ProxyAnswer ==
    /\ proxyReq.pc = "answer"
    /\ proxyReq' =
          IF proxyReq.api # 200
             THEN [proxyReq EXCEPT !.pc = "done", !.res = 500]
          ELSE IF proxyReq.body = ""
             THEN [proxyReq EXCEPT !.pc = "done", !.res = 404]
             ELSE [proxyReq EXCEPT !.pc = "rewrite", !.deploymentId = proxyReq.body]
    /\ UNCHANGED apiVars
    /\ UNCHANGED ingestVars
    /\ UNCHANGED follow

\* main.go lines 113-160: the target is basePath + deploymentId + "/" and
\* the request goes there with the rewritten path.
ProxyForward ==
    /\ proxyReq.pc = "rewrite"
    /\ proxyReq' = [proxyReq EXCEPT !.pc = "proxied",
                       !.forward = Rewrite(proxyReq.path)]
    /\ UNCHANGED apiVars
    /\ UNCHANGED ingestVars
    /\ UNCHANGED follow

\* ------------------------------------------- CLI: FollowDeploymentStatus
\* FollowPoll that goes on waiting when the deployment is FAILED.
FollowPollCompletedOnly ==
    /\ follow.pc = "polling"
    /\ Exists(deployments, follow.id)
    /\ follow' =
          IF deployments[follow.id].status = StatusCompleted
             THEN [follow EXCEPT !.pc = "stopped", !.report = "completed",
                                 !.seen = StatusCompleted]
             ELSE [follow EXCEPT !.seen = deployments[follow.id].status]
    /\ UNCHANGED apiVars
    /\ UNCHANGED ingestVars
    /\ UNCHANGED proxyVars

\* part_006 lines 295-325 with GetDeploymentStatus answered 200 by
\* GET /deployment/:id (index.ts 447-490): stop on COMPLETED and on FAILED,
\* go on waiting for every other status.
FollowPoll ==
    /\ follow.pc = "polling"
    /\ Exists(deployments, follow.id)
    /\ follow' =
          IF deployments[follow.id].status = StatusCompleted
             THEN [follow EXCEPT !.pc = "stopped", !.report = "completed",
                                 !.seen = StatusCompleted]
          ELSE IF deployments[follow.id].status = StatusFailed
             THEN [follow EXCEPT !.pc = "stopped", !.report = "failed",
                                 !.seen = StatusFailed]
             ELSE [follow EXCEPT !.seen = deployments[follow.id].status]
    /\ UNCHANGED apiVars
    /\ UNCHANGED ingestVars
    /\ UNCHANGED proxyVars

\* part_006 lines 297-302: GetDeploymentStatus returns an error (no answer,
\* a status other than 200 such as 404 for an id without a row, a body that
\* does not decode); the loop prints a warning and ends.
FollowFetchFails ==
    /\ follow.pc = "polling"
    /\ follow' = [follow EXCEPT !.pc = "stopped", !.report = "warning"]
    /\ UNCHANGED apiVars
    /\ UNCHANGED ingestVars
    /\ UNCHANGED proxyVars

\* ------------------------------------ the API server and its log consumer
\* The reverse proxy is another process; it only reads, through GET /resolve,
\* and has its own specification, SpecProxy.
SysDeployReqIds == 1..MaxDeployments

Next ==
    \/ CreateProject
    \/ \E r \in SysDeployReqIds : DeployFind(r)
    \/ \E r \in SysDeployReqIds : DeployCreate(r)
    \/ \E r \in SysDeployReqIds : DeployLink(r)
    \/ \E r \in SysDeployReqIds : DeploySend(r)
    \/ \E r \in SysDeployReqIds : DeployMarkFailed(r)
    \/ \E c \in CancelReqIds : CancelFind(c)
    \/ \E c \in CancelReqIds : CancelWrite(c)
    \/ Deliver
    \/ IngestUpdate
    \/ IngestArchive
    \/ IngestCommit
    \/ IngestHeartbeat

Spec == Init /\ [][Next]_vars

\* ------------------------------------- concurrent deploy requests by themselves
NextApi ==
    \/ CreateProject
    \/ \E r \in DeployReqIds : DeployFind(r)
    \/ \E r \in DeployReqIds : DeployCreate(r)
    \/ \E r \in DeployReqIds : DeployLink(r)
    \/ \E r \in DeployReqIds : DeploySend(r)
    \/ \E r \in DeployReqIds : DeployMarkFailed(r)

SpecApi == Init /\ [][NextApi]_vars

\* ------------------------------------------- ingestion on deployed rows
\* Rows a deployment can have after its deploy request was answered 202:
\* as created, or after one line with a signal was ingested.
DeployedRows ==
    {[projectId |-> 1, status |-> StatusQueued, updatedAt |-> 0]}
        \cup {[projectId |-> 1, status |-> st, updatedAt |-> 1] :
                 st \in {StatusInProgress, StatusCompleted, StatusFailed}}

DeployedTables == SeqsUpTo(DeployedRows, MaxDeployments)

\* The state after Len(rows) deploy requests for project 1 have succeeded.
Deployed(rows) ==
    /\ deployments = rows
    /\ projects = <<[slug |-> "brave-solid-otter", latestDeploymentId |-> Len(rows)]>>
    /\ jobs = DOMAIN rows
    /\ deployReq = [r \in DeployReqIds |->
          IF r \in DOMAIN rows
             THEN [pc |-> "done", projectId |-> 1, dep |-> r, res |-> 202]
             ELSE IdleDeploy]
    /\ cancelReq = [c \in CancelReqIds |-> IdleCancel]

\* eachBatch has just been handed its first batch.
Delivered(b) ==
    /\ batch = b
    /\ pos = 1
    /\ ipc = "update"
    /\ logStore = <<>>
    /\ resolved = 0
    /\ committed = 0
    /\ delivered = 1
    /\ snapshot = <<>>
    /\ classified = {}
    /\ proxyReq = IdleProxy
    /\ follow = IdleFollow

InitIngest ==
    /\ \E rows \in DeployedTables : Deployed(rows)
    /\ \E b \in Batches : Delivered(b)

NextIngest ==
    \/ IngestUpdate
    \/ IngestArchive
    \/ IngestCommit
    \/ IngestHeartbeat

SpecIngest == InitIngest /\ [][NextIngest]_vars

\* ------------------------- cancel requests racing one ingested message
SingleBatches == {<<m>> : m \in Messages}

InitCancel ==
    /\ \E rows \in DeployedTables : Deployed(rows)
    /\ \E b \in SingleBatches : Delivered(b)

NextCancel ==
    \/ \E c \in CancelReqIds : CancelFind(c)
    \/ \E c \in CancelReqIds : CancelWrite(c)
    \/ IngestUpdate
    \/ IngestArchive
    \/ IngestCommit
    \/ IngestHeartbeat

SpecCancel == InitCancel /\ [][NextCancel]_vars

\* --------------------------------------- the consumer crashing in a batch
\* The process ends while eachBatch runs; after the restart consumer.run
\* (line 294) hands eachBatch the messages after the committed offset.  The
\* stores keep what was written.
Crash ==
    /\ ipc \in {"update", "archive", "commit"}
    /\ delivered <= MaxBatches
    /\ batch' = SubSeq(batch, committed + 1, Len(batch))
    /\ IF committed < Len(batch)
          THEN pos' = 1 /\ ipc' = "update"
          ELSE pos' = 0 /\ ipc' = "idle"
    /\ resolved' = 0
    /\ committed' = 0
    /\ delivered' = delivered + 1
    /\ UNCHANGED <<logStore, snapshot, classified>>
    /\ UNCHANGED apiVars
    /\ UNCHANGED readerVars

\* The row of a deployment whose job was accepted and has logged nothing.
FreshRow == [projectId |-> 1, status |-> StatusQueued, updatedAt |-> 0]

\* One build's log partition: its lines, and a payload that does not parse.
BuildMessages == {LogMessage(1, log) : log \in StreamLines} \cup {BadMessage}

InitCrash ==
    /\ Deployed([d \in 1..MaxDeployments |-> FreshRow])
    /\ \E b \in SeqsUpTo(BuildMessages, MaxBatch) : Delivered(b)

NextCrash ==
    \/ IngestUpdate
    \/ IngestArchive
    \/ IngestCommit
    \/ IngestHeartbeat
    \/ Crash

SpecCrash == InitCrash /\ [][NextCrash]_vars

\* ------------------------------------------------ a batch delivered twice
\* The store answers every call; the stream delivers the batch a second
\* time after the first pass (at-least-once delivery).
ReplayUpdate == UpdateStep({TRUE})

ReplayArchive == ArchiveStep({TRUE})

Redeliver ==
    /\ ipc = "heartbeat"
    /\ delivered = 1
    /\ snapshot' = Statuses(deployments)
    /\ pos' = 1
    /\ ipc' = "update"
    /\ delivered' = 2
    /\ resolved' = 0
    /\ UNCHANGED <<batch, logStore, committed, classified>>
    /\ UNCHANGED apiVars
    /\ UNCHANGED readerVars

InitReplay ==
    /\ \E rows \in DeployedTables : Deployed(rows)
    /\ \E b \in Batches : Delivered(b)

NextReplay ==
    \/ ReplayUpdate
    \/ ReplayArchive
    \/ IngestCommit
    \/ Redeliver

SpecReplay == InitReplay /\ [][NextReplay]_vars

\* ------------------------------------------------- one line, every text
InitClassify ==
    /\ \E row \in DeployedRows : Deployed(<<row>>)
    /\ \E log \in Lines : Delivered(<<LogMessage(1, log)>>)

SpecClassify == InitClassify /\ [][NextReplay]_vars

\* ------------------------- one batch for deployments of every status
\* Every id in a message names a row.
FullTables == [StreamIds -> DeployedRows]

InitDeterminism ==
    /\ \E rows \in FullTables : Deployed(rows)
    /\ \E b \in Batches : Delivered(b)

NextDeterminism ==
    \/ ReplayUpdate
    \/ ReplayArchive
    \/ IngestCommit

SpecDeterminism == InitDeterminism /\ [][NextDeterminism]_vars

\* ------------------------------------- the reverse proxy serving a request
\* Projects as they are after their deploy requests: the one of Deployed,
\* before or after its deployments.
InitProxy ==
    /\ \E rows \in {<<>>} \cup DeployedTables : Deployed(rows)
    /\ batch = <<>>
    /\ pos = 0
    /\ ipc = "idle"
    /\ logStore = <<>>
    /\ resolved = 0
    /\ committed = 0
    /\ delivered = 0
    /\ snapshot = <<>>
    /\ classified = {}
    /\ proxyReq = IdleProxy
    /\ follow = IdleFollow

NextProxy ==
    \/ ProxyStart
    \/ ResolveSlug
    \/ ProxyAnswer
    \/ ProxyForward

SpecProxy == InitProxy /\ [][NextProxy]_vars

\* ------------------------ the CLI following a deployment during ingestion
\* FollowDeploymentStatus was called with the id of some deployment, or with
\* an id that has no row.
InitFollow ==
    /\ \E rows \in DeployedTables : Deployed(rows)
    /\ \E b \in SingleBatches :
          /\ batch = b
          /\ pos = 1
          /\ ipc = "update"
    /\ logStore = <<>>
    /\ resolved = 0
    /\ committed = 0
    /\ delivered = 1
    /\ snapshot = <<>>
    /\ classified = {}
    /\ proxyReq = IdleProxy
    /\ \E id \in StreamIds :
          follow = [pc |-> "polling", id |-> id, seen |-> "", report |-> ""]

NextFollow ==
    \/ FollowPoll
    \/ FollowFetchFails
    \/ IngestUpdate
    \/ IngestArchive
    \/ IngestCommit
    \/ IngestHeartbeat

\* The loop sleeps three seconds and polls again for as long as it runs.
SpecFollow == InitFollow /\ [][NextFollow]_vars /\ WF_vars(FollowPoll)

\* ------------------ every writer and two readers of the deployment table
\* MaxDeployments deploy requests have succeeded, their builds have logged
\* nothing yet, and one more has created its row and is about to call
\* ecsClient.send; one message is being ingested, one cancel request may
\* arrive, the CLI follows the new deployment and the proxy is resolving the
\* project's slug.
InitFrame ==
    /\ LET rows == [d \in 1..MaxDeployments |-> FreshRow] IN
          /\ deployments = Append(rows, FreshRow)
          /\ projects = <<[slug |-> "brave-solid-otter",
                           latestDeploymentId |-> Len(rows) + 1]>>
          /\ jobs = DOMAIN rows
          /\ deployReq = [r \in DeployReqIds |->
                IF r \in DOMAIN rows
                   THEN [pc |-> "done", projectId |-> 1, dep |-> r, res |-> 202]
                ELSE IF r = Len(rows) + 1
                   THEN [pc |-> "send", projectId |-> 1, dep |-> r, res |-> Null]
                   ELSE IdleDeploy]
    /\ cancelReq = [c \in CancelReqIds |-> IdleCancel]
    /\ \E b \in SingleBatches :
          /\ batch = b
          /\ pos = 1
          /\ ipc = "update"
    /\ logStore = <<>>
    /\ resolved = 0
    /\ committed = 0
    /\ delivered = 1
    /\ snapshot = <<>>
    /\ classified = {}
    /\ proxyReq = [IdleProxy EXCEPT !.pc = "lookup",
                                    !.label = <<"brave", "solid", "otter">>,
                                    !.path = IndexPath]
    /\ follow = [pc |-> "polling", id |-> MaxDeployments + 1,
                 seen |-> "", report |-> ""]

NextFrame ==
    \/ \E r \in DeployReqIds : DeploySend(r)
    \/ \E r \in DeployReqIds : DeployMarkFailed(r)
    \/ CancelFind(1)
    \/ CancelWrite(1)
    \/ IngestUpdate
    \/ IngestArchive
    \/ IngestCommit
    \/ IngestHeartbeat
    \/ FollowPoll
    \/ FollowFetchFails
    \/ ResolveSlug

SpecFrame == InitFrame /\ [][NextFrame]_vars

\* ------------------------------------------- the log of one build that succeeds
\* What a line of the build tools or of the upload may hold.
OutputMessages == {LogMessage(1, <<text>>) : text \in Segments}

\* script.js main, lines 158-167, when nothing throws: connectToKafka
\* publishes the start line, executeBuild and uploadToS3 publish their lines
\* and main publishes the sentinel last.
RunLogs ==
    {<<LogMessage(1, <<StartMarker>>)>> \o out \o <<LogMessage(1, <<Sentinel>>)>> :
        out \in {<<>>} \cup SeqsUpTo(OutputMessages, MaxBatch)}

\* The deployment was accepted; the consumer gets the run's log in stream
\* order and the stores answer every call.
InitRun ==
    /\ Deployed([d \in 1..MaxDeployments |-> FreshRow])
    /\ \E b \in RunLogs : Delivered(b)

NextRun ==
    \/ ReplayUpdate
    \/ ReplayArchive
    \/ IngestCommit
    \/ IngestHeartbeat

SpecRun == InitRun /\ [][NextRun]_vars

\* --------------------------- every writer of a status, from an empty table
\* A project exists and has no deployment yet; deploy requests create the
\* rows while one cancel request may arrive and one message is ingested.
InitStatus ==
    /\ projects = <<[slug |-> "brave-solid-otter", latestDeploymentId |-> Null]>>
    /\ deployments = <<>>
    /\ jobs = {}
    /\ deployReq = [r \in DeployReqIds |-> IdleDeploy]
    /\ cancelReq = [c \in CancelReqIds |-> IdleCancel]
    /\ \E b \in SingleBatches : Delivered(b)

NextStatus ==
    \/ \E r \in SysDeployReqIds : DeployFind(r)
    \/ \E r \in SysDeployReqIds : DeployCreate(r)
    \/ \E r \in SysDeployReqIds : DeployLink(r)
    \/ \E r \in SysDeployReqIds : DeploySend(r)
    \/ \E r \in SysDeployReqIds : DeployMarkFailed(r)
    \/ CancelFind(1)
    \/ CancelWrite(1)
    \/ IngestUpdate
    \/ IngestArchive
    \/ IngestCommit
    \/ IngestHeartbeat

SpecStatus == InitStatus /\ [][NextStatus]_vars

\* ================================================================ claims
\* The message eachBatch is working on.
Current == batch[pos]

\* updateDeploymentStatus has returned without throwing in this step.
UpdateReturned == ipc = "update" /\ ipc' = "archive"

\* C1. Terminal finality: once a deployment is COMPLETED or FAILED, no step
\* of any handler changes its status or its updatedAt.
TerminalFinality ==
    [][\A d \in DOMAIN deployments :
          deployments[d].status \in Terminal
             => /\ deployments'[d].status = deployments[d].status
                /\ deployments'[d].updatedAt = deployments[d].updatedAt]_vars

\* C2. No resurrection: no step takes a deployment from COMPLETED or FAILED
\* to PENDING, QUEUED or IN_PROGRESS.
NoResurrection ==
    [][\A d \in DOMAIN deployments :
          deployments[d].status \in Terminal
             => deployments'[d].status \notin NonTerminal]_vars

\* C3. Scenario E: a deployment whose dispatch succeeded is cancelled while
\* a batch holding only the sentinel line for it is ingested.  When both have
\* finished, the row was written exactly once and its status is terminal.
ScenarioEDone(c) ==
    /\ cancelReq[c].pc = "done"
    /\ cancelReq[c].res \in {200, 400}
    /\ Exists(deployments, cancelReq[c].id)
    /\ \E r \in DeployReqIds :
          /\ deployReq[r].dep = cancelReq[c].id
          /\ deployReq[r].pc = "done"
          /\ deployReq[r].res = 202
    /\ delivered = 1
    /\ batch = <<LogMessage(cancelReq[c].id, <<Sentinel>>)>>
    /\ ipc \in {"commit", "heartbeat"}
    /\ resolved = 1

ScenarioEOneWrite ==
    \A c \in CancelReqIds :
       ScenarioEDone(c)
          => /\ deployments[cancelReq[c].id].updatedAt = 1
             /\ deployments[cancelReq[c].id].status \in Terminal

\* C5. Dispatch-failure consistency: in the step that answers 500 to a
\* deploy request, the deployment is FAILED once the answer is out.
DispatchFailureConsistency ==
    [][\A r \in DeployReqIds :
          (deployReq[r].res # 500 /\ deployReq'[r].res = 500)
             => deployments'[deployReq'[r].dep].status = StatusFailed]_vars

\* C6. A deploy request that has finished, answered or not, leaves no
\* deployment QUEUED without a job accepted by the task runner.
NoQueuedWithoutJob ==
    \A r \in DeployReqIds :
       (/\ deployReq[r].pc \in {"done", "dead"}
        /\ deployReq[r].dep # Null
        /\ deployments[deployReq[r].dep].status = StatusQueued)
          => deployReq[r].dep \in jobs

\* C4. Cancel guard.  A request for an existing deployment reads the row;
\* it goes on to write exactly when the status read is PENDING, QUEUED or
\* IN_PROGRESS, and is answered 400 with the rows untouched exactly when it
\* is COMPLETED or FAILED.  The write sets FAILED and is answered 200.  When
\* the store rejects the read or the write the answer is 500 and the rows
\* are untouched.
CancelAnswers ==
    \A c \in CancelReqIds :
       /\ cancelReq[c].res = 200 => cancelReq[c].seen \in NonTerminal
       /\ (cancelReq[c].res = 400 /\ cancelReq[c].id # Null)
             => cancelReq[c].seen \in Terminal
       /\ (cancelReq[c].pc = "done" /\ cancelReq[c].seen \in Terminal)
             => cancelReq[c].res = 400

CancelSteps ==
    \A c \in CancelReqIds :
       LET id == cancelReq'[c].id IN
       /\ (cancelReq[c].pc = "idle" /\ cancelReq'[c].pc # "idle"
              /\ Exists(deployments, id) /\ cancelReq'[c].res # 500)
             => /\ cancelReq'[c].seen = deployments[id].status
                /\ deployments[id].status \in NonTerminal
                      <=> cancelReq'[c].pc = "write"
                /\ deployments[id].status \in Terminal
                      <=> (cancelReq'[c].pc = "done" /\ cancelReq'[c].res = 400)
                /\ deployments' = deployments
       /\ (cancelReq[c].pc = "write" /\ cancelReq'[c].pc # "write")
             => \/ /\ cancelReq'[c].res = 200
                   /\ deployments'[id].status = StatusFailed
                   /\ \A d \in DOMAIN deployments :
                         d # id => deployments'[d] = deployments[d]
                \/ /\ cancelReq'[c].res = 500
                   /\ deployments' = deployments

CancelGuard == []CancelAnswers /\ [][CancelSteps]_vars

\* A cancel that read IN_PROGRESS was answered 200 and the row is FAILED.
CancelGuardWitness ==
    \E c \in CancelReqIds :
       /\ cancelReq[c].res = 200
       /\ cancelReq[c].seen = StatusInProgress
       /\ deployments[cancelReq[c].id].status = StatusFailed

\* C7. Idempotent ingestion: when a batch has been processed and is
\* delivered and processed a second time, every deployment ends the second
\* pass with the status it had after the first.
IdempotentIngestion ==
    (delivered = 2 /\ ipc \in {"commit", "heartbeat"})
       => Statuses(deployments) = snapshot

\* Two lines with different signals for one deployment were processed twice.
IdempotentIngestionWitness ==
    /\ delivered = 2
    /\ ipc = "heartbeat"
    /\ Len(batch) = 2
    /\ batch[1].kind = "ok" /\ batch[2].kind = "ok"
    /\ batch[1].id = batch[2].id
    /\ Exists(deployments, batch[1].id)
    /\ batch[1].log = <<"Error", "ok">>
    /\ batch[2].log = <<StartMarker>>
    /\ Len(logStore) = 4

\* C8. Create.  A deploy request with a project id whose store calls are
\* answered: for an existing project it appends one row,
\* QUEUED and owned by that project, and then sets the project's
\* latestDeploymentId to the new id; no other row changes.  A request for a
\* project id without a row is answered 404 and changes no row and no job.
CreateSteps ==
    \A r \in DeployReqIds :
       LET p == deployReq'[r].projectId
           new == Len(deployments) + 1 IN
       /\ (deployReq[r].pc = "idle" /\ deployReq'[r].pc \notin {"idle", "dead"}
              /\ deployReq'[r].res # 400)
             => /\ Exists(projects, p) <=> deployReq'[r].pc = "create"
                /\ ~Exists(projects, p)
                      <=> (deployReq'[r].pc = "done" /\ deployReq'[r].res = 404)
                /\ UNCHANGED <<projects, deployments, jobs>>
       /\ (deployReq[r].pc = "create" /\ deployReq'[r].pc = "link")
             => /\ Len(deployments') = new
                /\ deployments'[new].status = StatusQueued
                /\ deployments'[new].projectId = p
                /\ deployReq'[r].dep = new
                /\ \A d \in DOMAIN deployments : deployments'[d] = deployments[d]
       /\ (deployReq[r].pc = "link" /\ deployReq'[r].pc = "send")
             => /\ projects'[p].latestDeploymentId = deployReq[r].dep
                /\ \A q \in DOMAIN projects :
                      q # p => projects'[q] = projects[q]

\* Each request that got past the create call made one row, its own.
CreateOnce ==
    /\ Len(deployments) =
          Cardinality({r \in DeployReqIds : deployReq[r].dep # Null})
    /\ \A r \in DeployReqIds :
          /\ deployReq[r].dep # Null
                => deployments[deployReq[r].dep].projectId = deployReq[r].projectId
          /\ deployReq[r].res = 404 => deployReq[r].dep = Null
          /\ \A q \in DeployReqIds :
                (q # r /\ deployReq[r].dep # Null)
                   => deployReq[q].dep # deployReq[r].dep

Create == []CreateOnce /\ [][CreateSteps]_vars

\* One request was answered 404, another made deployment 1, still QUEUED,
\* and project 1 points to it.
CreateWitness ==
    \E r, q \in DeployReqIds :
       /\ deployReq[r].res = 404
       /\ deployReq[q].dep = 1
       /\ deployReq[q].pc = "send"
       /\ deployments[1].status = StatusQueued
       /\ projects[deployReq[q].projectId].latestDeploymentId = 1

\* C9. Transition of a non-terminal deployment: when updateDeploymentStatus
\* returns for a line with signal S and a row that is PENDING, QUEUED or
\* IN_PROGRESS, the row's status is S and its updatedAt has moved.
TransitionNonTerminal ==
    [][(/\ UpdateReturned
        /\ Signal(Current.log) # NoSignal
        /\ deployments[Current.id].status \in NonTerminal)
          => /\ deployments'[Current.id].status = Signal(Current.log)
             /\ deployments'[Current.id].updatedAt
                   = deployments[Current.id].updatedAt + 1]_vars

\* Scenario A: a QUEUED deployment got "Starting", then the sentinel, and is
\* COMPLETED.
TransitionNonTerminalWitness ==
    /\ ipc = "commit"
    /\ Len(batch) = 2
    /\ batch[1] = LogMessage(1, <<StartMarker>>)
    /\ batch[2] = LogMessage(1, <<Sentinel>>)
    /\ resolved = 2
    /\ deployments[1].updatedAt = 2
    /\ deployments[1].status = StatusCompleted

\* C10. Classifier priority.  For the line being ingested: a line with the
\* start marker makes the row IN_PROGRESS; else a line with the sentinel
\* makes it COMPLETED; else a line with "error" or "failed" in some letter
\* case makes it FAILED; else the row keeps its status.
HasSegment(log, S) == \E i \in DOMAIN log : log[i] \in S

PriorityStatus(log, status) ==
    IF HasSegment(log, {"Starting"}) THEN StatusInProgress
    ELSE IF HasSegment(log, {"Build output uploaded to S3 successfully"})
       THEN StatusCompleted
    ELSE IF HasSegment(log, {"error", "Error", "ERROR", "failed", "Failed", "FAILED"})
       THEN StatusFailed
    ELSE status

ClassifierPriority ==
    [][UpdateReturned
          => deployments'[Current.id].status
                = PriorityStatus(Current.log, deployments[Current.id].status)]_vars

\* A line with the start marker and "ERROR" made a COMPLETED row IN_PROGRESS.
ClassifierPriorityWitness ==
    /\ ipc = "archive"
    /\ delivered = 1
    /\ batch[1].log = <<"ERROR", StartMarker>>
    /\ deployments[1].status = StatusInProgress

\* C11. Sentinel exactness: a call of updateDeploymentStatus writes
\* COMPLETED only for a line that is exactly the sentinel.
SentinelExactness ==
    [][(UpdateReturned /\ Current.log # <<Sentinel>>)
          => Written(deployments, deployments', Current.id) # StatusCompleted]_vars

\* C12. Classifier determinism: two calls of updateDeploymentStatus that
\* returned for the same line text did the same, the same status written or
\* nothing written, whatever the deployment, its status and the lines before.
ClassifierDeterminism ==
    \A a, b \in classified : a[1] = b[1] => a[2] = b[2]

\* The sentinel was ingested for two deployments, one of them fresh and one
\* written before, and both calls wrote COMPLETED.
ClassifierDeterminismWitness ==
    /\ ipc = "commit"
    /\ Len(batch) = 2
    /\ batch[1].log = <<Sentinel>> /\ batch[2].log = <<Sentinel>>
    /\ batch[1].id = 1 /\ batch[2].id = 2
    /\ resolved = 2
    /\ deployments[1].updatedAt = 1 /\ deployments[2].updatedAt = 2
    /\ classified = {<< <<Sentinel>>, StatusCompleted >>}

\* C13. Scenario B: a cancel request that starts after a deploy request was
\* answered 500 for a failed submission finds the deployment FAILED and is
\* answered 400, the row untouched.
ScenarioB ==
    [][\A c \in CancelReqIds, r \in DeployReqIds :
          (/\ deployReq[r].res = 500
           /\ cancelReq[c].pc = "idle" /\ cancelReq'[c].pc # "idle"
           /\ cancelReq'[c].id = deployReq[r].dep
           /\ cancelReq'[c].res # 500)
             => /\ deployments[deployReq[r].dep].status = StatusFailed
                /\ cancelReq'[c].pc = "done"
                /\ cancelReq'[c].res = 400]_vars

\* C14. A failed build is visible: when the last line of a run, "Error: "
\* followed by the message, has been ingested, the deployment is FAILED.
FailedBuildVisible ==
    (/\ ipc = "commit"
     /\ Len(batch) = 1
     /\ batch[1].log[1] = "Error"
     /\ resolved = 1)
       => deployments[batch[1].id].status = StatusFailed

\* The label has the slug shape: three words of lowercase letters.
SlugShaped(label) ==
    /\ Len(label) = 3
    /\ \A i \in 1..3 : label[i] \in {"brave", "solid", "otter", "calm", "red", "fox"}

\* The project rows with the slug the label spells.
Named(label) == {p \in DOMAIN projects : projects[p].slug = Join(label)}

\* C15. Slug resolution (Scenario C).  For a slug-shaped label whose lookup
\* was answered by the store: the request is proxied exactly when a project
\* has the slug and a latestDeploymentId d, the target is then the artifact
\* base of d, and an empty path or "/" is forwarded as "/index.html".
SlugResolution ==
    SlugShaped(proxyReq.label) =>
       /\ proxyReq.pc \in {"rewrite", "proxied"}
             => \E p \in Named(proxyReq.label) :
                   /\ projects[p].latestDeploymentId # Null
                   /\ proxyReq.deploymentId
                         = DeploymentIdText(projects[p].latestDeploymentId)
       /\ (proxyReq.pc = "done" /\ proxyReq.api = 404)
             => \A p \in Named(proxyReq.label) :
                   projects[p].latestDeploymentId = Null
       /\ (proxyReq.pc = "proxied" /\ proxyReq.path \in {<<>>, <<"">>})
             => proxyReq.forward = <<"index.html">>

\* Scenario C: brave-solid-otter with latestDeploymentId 1 and path "/".
SlugResolutionWitness ==
    /\ proxyReq.pc = "proxied"
    /\ proxyReq.label = <<"brave", "solid", "otter">>
    /\ projects[1].latestDeploymentId = 1
    /\ proxyReq.path = <<"">>
    /\ proxyReq.deploymentId = "d1"
    /\ proxyReq.forward = <<"index.html">>

\* C16. Literal deployment id (Scenario D).  For a label without the slug
\* shape no lookup is made and the label itself is the deployment id; the
\* path "/about" is forwarded as "/about".
LiteralDeploymentId ==
    (proxyReq.pc # "idle" /\ ~SlugShaped(proxyReq.label)) =>
       /\ proxyReq.pc \in {"rewrite", "proxied"}
       /\ proxyReq.api = Null /\ proxyReq.body = "" /\ proxyReq.res = Null
       /\ proxyReq.deploymentId = Join(proxyReq.label)
       /\ (proxyReq.pc = "proxied" /\ proxyReq.path = <<"about">>)
             => proxyReq.forward = <<"about">>

\* Scenario D: d1 with path "/about".
LiteralDeploymentIdWitness ==
    /\ proxyReq.pc = "proxied"
    /\ proxyReq.label = <<"d1">>
    /\ proxyReq.deploymentId = "d1"
    /\ proxyReq.path = <<"about">>
    /\ proxyReq.forward = <<"about">>

AssetDirs == {"assets", "images", "static", "media", "_next", "js", "css"}

\* C17 as stated.  For every path other than the empty one and "/": a
\* first segment that is no asset directory is stripped, and a path whose
\* first segment is an asset directory is forwarded unchanged.
PathRewriteEverySegment ==
    (proxyReq.pc = "proxied" /\ proxyReq.path \notin {<<>>, <<"">>})
       => proxyReq.forward =
             IF proxyReq.path[1] \notin AssetDirs
                THEN Tail(proxyReq.path) ELSE proxyReq.path

\* C17 as amended.  For every path other than the empty one and "/": when
\* the path has a "/" after its first segment and that segment is no asset
\* directory, the first segment is stripped; every other path is forwarded
\* unchanged.
PathRewrite ==
    (proxyReq.pc = "proxied" /\ proxyReq.path \notin {<<>>, <<"">>})
       => proxyReq.forward =
             IF /\ Len(proxyReq.path) >= 2
                /\ proxyReq.path[1] \notin AssetDirs
                THEN Tail(proxyReq.path) ELSE proxyReq.path

\* "/about/team" was forwarded as "/team" and nothing else is known of it.
PathRewriteWitness ==
    /\ proxyReq.pc = "proxied"
    /\ proxyReq.path = <<"about", "team">>
    /\ proxyReq.forward = <<"team">>

\* C18. Resolver failure modes: for a slug-shaped label the client gets 404
\* when no project has the slug, and 502 or 500 when the lookup failed by a
\* transport error.
ResolverFailureModes ==
    (proxyReq.pc = "done" /\ SlugShaped(proxyReq.label)) =>
       /\ (proxyReq.api = 404 /\ Named(proxyReq.label) = {}) => proxyReq.res = 404
       /\ proxyReq.api = Null => proxyReq.res \in {500, 502}

\* C19. Slug resolution serves only completed deployments: the lookup is
\* answered with a deployment id only when the project's latestDeploymentId
\* names a COMPLETED deployment.
ResolveOnlyCompleted ==
    (proxyReq.api = 200 /\ SlugShaped(proxyReq.label))
       => \E p \in Named(proxyReq.label) :
             /\ projects[p].latestDeploymentId # Null
             /\ deployments[projects[p].latestDeploymentId].status = StatusCompleted

\* C20. Slug invariant: no two projects have the same slug, and no step
\* changes or removes the slug of a project.
SlugsUnique ==
    \A p, q \in DOMAIN projects : projects[p].slug = projects[q].slug => p = q

SlugsKept ==
    \A p \in DOMAIN projects :
       p \in DOMAIN projects' /\ projects'[p].slug = projects[p].slug

SlugInvariant == []SlugsUnique /\ [][SlugsKept]_vars

\* Two projects, each with a deployment linked after both were created.
SlugInvariantWitness ==
    /\ Len(projects) = 2
    /\ projects[1].slug # projects[2].slug
    /\ projects[1].latestDeploymentId = 2
    /\ projects[2].latestDeploymentId = 1

\* The deployment the CLI follows is COMPLETED or FAILED.
FollowedTerminal ==
    Exists(deployments, follow.id) /\ deployments[follow.id].status \in Terminal

\* C21. CLI status following.  A poll that reads PENDING, QUEUED or
\* IN_PROGRESS leaves the loop polling; a poll that reads COMPLETED or FAILED
\* ends it with the report of that status; a failed fetch ends it with a
\* warning.  When the deployment stays COMPLETED or FAILED from some point
\* on, the loop ends.
FollowSteps ==
    (follow.pc = "polling" /\ follow' # follow) =>
       \/ follow'.pc = "stopped" /\ follow'.report = "warning"
       \/ /\ Exists(deployments, follow.id)
          /\ LET status == deployments[follow.id].status IN
                /\ status \in {"PENDING", "QUEUED", "IN_PROGRESS"}
                      => follow'.pc = "polling"
                /\ status = "COMPLETED"
                      => follow'.pc = "stopped" /\ follow'.report = "completed"
                /\ status = "FAILED"
                      => follow'.pc = "stopped" /\ follow'.report = "failed"

FollowTerminates ==
    /\ [][FollowSteps]_vars
    /\ <>[]FollowedTerminal => <>(follow.pc = "stopped")

\* The loop saw IN_PROGRESS, went on, and ended when the row was COMPLETED.
FollowTerminatesWitness ==
    /\ follow.pc = "stopped"
    /\ follow.report = "completed"
    /\ batch = <<LogMessage(follow.id, <<Sentinel>>)>>
    /\ deployments[follow.id].updatedAt = 2

\* C22. Every event is archived: for every message with a well-formed
\* payload, eachBatch goes on to the write to the log store, whatever
\* updateDeploymentStatus did.
EveryEventArchived ==
    [][(ipc = "update" /\ Current.kind = "ok") => ipc' = "archive"]_vars

\* C23. Per-event failure isolation: whatever happens to a message (no
\* value, a payload that does not parse, an id without a row, a store that
\* rejects the update or the archive write), eachBatch goes on with the
\* next message of the batch, or with the commit after the last one; it
\* reaches the commit only with every message visited.
LoopSteps ==
    (ipc \in {"update", "archive"}) =>
       \/ ipc = "update" /\ ipc' = "archive" /\ pos' = pos
       \/ pos < Len(batch) /\ pos' = pos + 1 /\ ipc' = "update"
       \/ pos = Len(batch) /\ pos' = pos /\ ipc' = "commit"

FailureIsolation ==
    /\ [](ipc \in {"commit", "heartbeat"} => pos = Len(batch))
    /\ [][LoopSteps]_vars

\* After a payload that does not parse, the sentinel line of deployment 1
\* was classified and archived.
FailureIsolationWitness ==
    /\ ipc = "commit"
    /\ batch = <<BadMessage, LogMessage(1, <<Sentinel>>)>>
    /\ deployments[1].status = StatusCompleted
    /\ logStore = <<[deployment_id |-> 1, log |-> <<Sentinel>>]>>

\* C25. Heartbeat during processing: eachBatch goes from one message to the
\* next only through a heartbeat.
HeartbeatPerEvent ==
    [][(pos >= 1 /\ pos' = pos + 1) => ipc = "heartbeat"]_vars

\* C24. Checkpoint after the batch: while the messages of a batch are being
\* processed no offset of the batch is committed; the commit is made only
\* when every message has been visited; and after a crash before the commit
\* the whole batch is delivered again, from its first message.
CommitSteps ==
    /\ (committed' # committed /\ delivered' = delivered)
          => ipc = "commit" /\ pos = Len(batch)
    /\ delivered' = delivered + 1
          => batch' = batch /\ pos' = 1 /\ ipc' = "update"

CheckpointAfterBatch ==
    /\ [](ipc \in {"update", "archive", "commit"} => committed = 0)
    /\ [][CommitSteps]_vars

\* The first of two messages was archived, the consumer crashed, and the
\* batch of two is in hand again at its first message.
CheckpointAfterBatchWitness ==
    /\ delivered = 2
    /\ ipc = "update"
    /\ pos = 1
    /\ Len(batch) = 2
    /\ Len(logStore) = 1
    /\ logStore[1] = [deployment_id |-> batch[1].id, log |-> batch[1].log]
    /\ committed = 0

\* C26: the row of a deployment changes only in the step where the deploy
\* request that created it marks its dispatch failure, where a message with
\* its deploymentId is ingested, or where a cancel request for it writes;
\* the reads (get deployment, resolve slug) change no row, and no step
\* removes a row.
Changes(d) ==
    \/ \E r \in DeployReqIds :
          /\ deployReq[r].pc = "fail"
          /\ deployReq[r].dep = d
          /\ deployReq'[r].pc = "done"
    \/ /\ ipc = "update"
       /\ batch[pos].kind = "ok"
       /\ batch[pos].id = d
       /\ ipc' = "archive"
    \/ \E c \in CancelReqIds :
          /\ cancelReq[c].pc = "write"
          /\ cancelReq[c].id = d
          /\ cancelReq'[c].res = 200

StatusFrame ==
    [][/\ Len(deployments') >= Len(deployments)
       /\ \A d \in DOMAIN deployments :
             (d \in DOMAIN deployments' /\ deployments'[d] # deployments[d])
                => Changes(d)
       /\ (follow' # follow \/ proxyReq' # proxyReq)
             => deployments' = deployments]_vars

\* A dispatch failure marked the second deployment while a message with its
\* id was ingested and the slug was resolved; the first row is untouched.
StatusFrameWitness ==
    /\ Len(deployments) = 2
    /\ deployments[1] = FreshRow
    /\ deployments[2] = [projectId |-> 1, status |-> StatusFailed, updatedAt |-> 1]
    /\ deployReq[2].pc = "done"
    /\ deployReq[2].res = 500
    /\ ipc = "heartbeat"
    /\ batch[1] = LogMessage(2, <<"ok">>)
    /\ proxyReq.pc = "answer"
    /\ follow.pc = "stopped"

\* C27: while a batch is processed, the rows the log store holds for one
\* deploymentId are, in the order of their insertion, events of that
\* deployment in the order in which the batch holds them.
RECURSIVE InStreamOrder(_, _)
InStreamOrder(stored, stream) ==
    IF stored = <<>> THEN TRUE
    ELSE IF stream = <<>> THEN FALSE
    ELSE IF Head(stored) = Head(stream)
       THEN InStreamOrder(Tail(stored), Tail(stream))
       ELSE InStreamOrder(stored, Tail(stream))

StoredOf(id) ==
    LET Of(row) == row.deployment_id = id IN
    [i \in DOMAIN SelectSeq(logStore, Of) |-> SelectSeq(logStore, Of)[i].log]

StreamOf(id) ==
    LET Of(m) == m.kind = "ok" /\ m.id = id IN
    [i \in DOMAIN SelectSeq(batch, Of) |-> SelectSeq(batch, Of)[i].log]

ArchiveOrder ==
    ipc \in {"update", "archive", "commit", "heartbeat"}
       => \A id \in StreamIds : InStreamOrder(StoredOf(id), StreamOf(id))

\* Two different events of one deployment are both in the log store.
ArchiveOrderWitness ==
    /\ ipc = "commit"
    /\ batch = <<LogMessage(1, <<Sentinel>>), LogMessage(1, <<StartMarker>>)>>
    /\ logStore = <<[deployment_id |-> 1, log |-> <<Sentinel>>],
                    [deployment_id |-> 1, log |-> <<StartMarker>>]>>

\* C28: once every deploy request has been answered 202, the
\* latestDeploymentId of each project is the id of the deployment created
\* last for it.
LatestIsNewest ==
    (\A r \in DeployReqIds : deployReq[r].pc = "done" /\ deployReq[r].res = 202)
       => \A p \in DOMAIN projects :
             \A d \in DOMAIN deployments :
                deployments[d].projectId = p
                   => projects[p].latestDeploymentId >= d

\* C29: every message of the batch with a value whose offset is at or below
\* the committed offset has its row in the log store.
CommittedArchived ==
    \A i \in DOMAIN batch :
       (i <= committed /\ batch[i].kind # "null")
          => \E j \in DOMAIN logStore :
                logStore[j] = [deployment_id |-> batch[i].id, log |-> batch[i].log]

\* C30: when the log of a build run that succeeded has been processed in
\* stream order, the deployment is COMPLETED, whatever its output lines
\* hold.
SuccessfulRunCompleted ==
    ipc \in {"commit", "heartbeat", "idle"}
       => deployments[1].status = StatusCompleted

\* A run whose output had a line with "error" has been processed.
SuccessfulRunCompletedWitness ==
    /\ ipc = "heartbeat"
    /\ Len(batch) = 3
    /\ batch[2].log = <<"error">>
    /\ Len(logStore) = 3
    /\ deployments[1] = [projectId |-> 1, status |-> StatusCompleted, updatedAt |-> 3]

\* C31: the path a request is forwarded with is never empty and never "/".
ForwardNeverRoot ==
    proxyReq.pc = "proxied" => proxyReq.forward \notin {<<>>, <<"">>}

\* C32: no deployment has status PENDING, whatever the deploy requests, the
\* cancel requests and the ingested messages have done.
NeverPending ==
    \A d \in DOMAIN deployments : deployments[d].status # "PENDING"

\* A deployment was created, its message was ingested and a cancel request
\* for it was answered 200.
NeverPendingWitness ==
    /\ Len(deployments) >= 1
    /\ deployments[1].updatedAt = 2
    /\ deployReq[1].pc = "done"
    /\ cancelReq[1].res = 200
    /\ ipc = "idle"
    /\ Len(logStore) = 1

\* C33: the latestDeploymentId of a project is unset or the id of a
\* deployment row whose projectId is that project.
LatestRefersToOwn ==
    \A p \in DOMAIN projects :
       \/ projects[p].latestDeploymentId = 0
       \/ /\ projects[p].latestDeploymentId \in DOMAIN deployments
          /\ deployments[projects[p].latestDeploymentId].projectId = p

\* The first deployment belongs to the second project, which refers to it;
\* the first project has none.
LatestRefersToOwnWitness ==
    /\ Len(projects) = 2
    /\ projects[1].latestDeploymentId = 0
    /\ projects[2].latestDeploymentId = 1
    /\ deployments[1].projectId = 2

====
